---- MODULE Spec2Model ----
(***************************************************************************)
(* Model of the S3 cross-region replication setup tool (s3_crr_setup.go,   *)
(* kept as src/unnamed/part_000).  The external services (S3, IAM) are the *)
(* state; every SDK call of the tool is one atomic step whose outcome the  *)
(* service chooses.                                                        *)
(***************************************************************************)
EXTENDS Integers, Sequences, FiniteSets, TLC

VARIABLES
    buckets,        \* S3: destination bucket name -> [owner, versioning, location]
    srcVersioning,  \* S3: versioning status of the source bucket is "Enabled"
    roles,          \* IAM: set of roles [name, arn, trust, policies]
    repl,           \* S3: replication configuration stored on the source bucket
    pc,             \* the SDK call the tool is about to make, or idle/done/fatal
    args,           \* the flags of the current run
    roleArn,        \* main's roleArn / ensureReplicationRole's local
    existingRules,  \* putReplicationConfiguration's existingRules as fetched
    fetchRes,       \* outcome of GetBucketReplication in the current call
    err,            \* message of the error that ended the run, or NoErr
    calls,          \* SDK calls made by the current run, in order
    runs,           \* number of runs started
    prev,           \* what the previous run left behind, if it completed
    replBefore,     \* repl when the current putReplicationConfiguration began
    returnedArn,    \* role name -> ARN ensureReplicationRole first returned
    granted,        \* role name -> (source, destination) pairs whose policy
                    \* ensureReplicationRole attached
    headRes,        \* outcome of HeadBucket in the current run
    objs,           \* S3: destination bucket -> what it holds under the probe key
    vpc,            \* verifier: the SDK call it is about to make, or idle/done/fatal
    vargs,          \* verifier: its flags
    destBuckets,    \* verifier: destination bucket names it collected
    idx,            \* verifier: position of the current destination in destBuckets
    attempt,        \* verifier: presence checks made in the current polling loop
    slept,          \* verifier: seconds slept in the current polling loop
    checks,         \* verifier: results of those presence checks, in order
    found,          \* verifier: found flag of the current destination
    lookup,         \* verifier: what GetBucketLocation answered for the destination
    detectedRegion, \* verifier: region of the session used for the destination
    polls,          \* verifier: one record for each polling loop it finished
    compared,       \* verifier: one record for each object-count comparison
    verr,           \* verifier: message of the fatal error, or NoErr
    vcalls,         \* verifier: the (call, bucket) pairs of the SDK calls it made
    racers,         \* concurrent reconcilers: id -> position, flags and locals
    events,         \* concurrent reconcilers: fetches and writes, in order
    upserts         \* serial caller: the calls that returned nil, in order

\* the setup tool and the services it talks to
setupVars == <<buckets, srcVersioning, roles, repl, pc, args, roleArn,
               existingRules, fetchRes, err, calls, runs, prev, replBefore,
               returnedArn, granted, headRes>>

\* the verification tool and the objects it looks for
verifyVars == <<objs, vpc, vargs, destBuckets, idx, attempt, slept, checks,
                found, lookup, detectedRegion, polls, compared, verr, vcalls>>

\* setup runs reconciling the same source bucket at the same time
raceVars == <<racers, events>>

\* the caller that invokes putReplicationConfiguration again and again
histVars == <<upserts>>

auxVars == <<verifyVars, raceVars, histVars>>

vars == <<setupVars, auxVars>>

----------------------------------------------------------------------------
(* Bounds of the model *)

MaxRules == 2    \* longest replication configuration another tool left behind
MaxPrio  == 2    \* largest priority in such a configuration
MaxRuns  == 2    \* setup runs in one behaviour

----------------------------------------------------------------------------
(* Names *)

SrcBucket == "src"
Dests     == {"A", "B", "C"}
RunDests  == {"A", "B"}     \* dest-bucket flags given to setup runs
RoleNames == {"role-x"}

\* role-name flags given to the runs of a series
SeriesRoleNames == RoleNames \cup {"role-y"}

NoPriority    == -1      \* ReplicationRule.Priority == nil
NoDestination == <<>>    \* ReplicationRule.Destination (or its Bucket) == nil
NoArn         == <<>>    \* the empty role ARN ""
NoErr         == "none"
NoArgs        == [srcBucket |-> SrcBucket, dstBucket |-> "-", dstRegion |-> "-",
                  roleName |-> "-"]

\* no replication configuration on the bucket
AbsentRepl == [present |-> FALSE, role |-> NoArn, rules |-> <<>>]

\* no previous run completed
NoPrev == [valid |-> FALSE, args |-> NoArgs, repl |-> AbsentRepl, roles |-> {},
           fetchRes |-> "none"]

S3Principal == "s3.amazonaws.com"

\* fmt.Sprintf("arn:aws:s3:::%s", dstBucket)
DstARN(dstBucket) == <<"arn:aws:s3:::", dstBucket>>

\* fmt.Sprintf("replicate-to-%s", dstBucket)
RuleID(dstBucket) == <<"replicate-to-", dstBucket>>

----------------------------------------------------------------------------
(* putReplicationConfiguration: the merge of the desired rule into the      *)
(* fetched rules                                                            *)

\* maxPriority := int64(0); for each rule: if Priority != nil && > max ...
RECURSIVE MaxPriority(_)
MaxPriority(rules) ==
    IF rules = <<>> THEN 0
    ELSE LET r    == rules[Len(rules)]
             rest == MaxPriority(SubSeq(rules, 1, Len(rules) - 1))
         IN  IF r.Priority # NoPriority /\ r.Priority > rest
             THEN r.Priority ELSE rest

\* the condition of the second loop: the rule targets the destination
Matches(r, dstARN) ==
    r.Destination # NoDestination /\ r.Destination = dstARN

\* a slip in the comparison that lets no rule match
MatchIndex_Never(rules, dstARN) == 0

\* index of the first rule the second loop updates (it breaks there), 0 if none

MatchIndex(rules, dstARN) ==
    IF \E i \in 1..Len(rules) : Matches(rules[i], dstARN)
    THEN CHOOSE i \in 1..Len(rules) :
            /\ Matches(rules[i], dstARN)
            /\ \A j \in 1..(i - 1) : ~Matches(rules[j], dstARN)
    ELSE 0

\* slips in the update branch: the priority is always reassigned, or a
\* missing priority is copied as it is
UpdatedPriority_Fresh(r, maxPriority) == maxPriority + 1

UpdatedPriority_KeepNil(r, maxPriority) == r.Priority

\* priority := r.Priority; if priority == nil { priority = maxPriority + 1 }

UpdatedPriority(r, maxPriority) ==
    IF r.Priority = NoPriority THEN maxPriority + 1 ELSE r.Priority

\* a slip that reuses the highest priority for the appended rule
NewPriority_NoIncrement(maxPriority) == maxPriority

\* Priority: aws.Int64(maxPriority + 1) of the appended rule

NewPriority(maxPriority) == maxPriority + 1

\* a slip that writes the rule switched off
MakeRule_Disabled(dstBucket, priority) ==
    [ID          |-> RuleID(dstBucket),
     Status      |-> "Disabled",
     Priority    |-> priority,
     Prefix      |-> "",
     Destination |-> DstARN(dstBucket),
     DMR         |-> "Disabled"]

\* the s3.ReplicationRule literal built for the destination
MakeRule(dstBucket, priority) ==
    [ID          |-> RuleID(dstBucket),
     Status      |-> "Enabled",
     Priority    |-> priority,
     Prefix      |-> "",
     Destination |-> DstARN(dstBucket),
     DMR         |-> "Disabled"]

\* a slip that forgets the update branch and appends every time
UpsertRules_AlwaysAppend(rules, dstBucket) ==
    Append(rules, MakeRule(dstBucket, NewPriority(MaxPriority(rules))))

\* the rule list handed to PutBucketReplication
UpsertRules(rules, dstBucket) ==
    LET maxPriority == MaxPriority(rules)
        i           == MatchIndex(rules, DstARN(dstBucket))
    IN  IF i # 0
        THEN [rules EXCEPT ![i] =
                 MakeRule(dstBucket, UpdatedPriority(rules[i], maxPriority))]
        ELSE Append(rules, MakeRule(dstBucket, NewPriority(maxPriority)))

\* if err == nil && getOut.ReplicationConfiguration != nil { existingRules = ... }
FetchedRules(res, stored) ==
    IF res = "ok" /\ stored.present THEN stored.rules ELSE <<>>

\* a slip that returns on every fetch error, "no configuration" included
FetchIsFatal_AnyError(res) == res # "ok"

\* no outcome of the fetch makes putReplicationConfiguration return: the
\* error is only tested for nil and then overwritten by the write's

FetchIsFatal(res) == FALSE

----------------------------------------------------------------------------
(* ensureReplicationRole: the documents it builds                          *)

\* principals the assumeRolePolicy map lets call sts:AssumeRole
AssumeRolePolicy == {S3Principal}

\* the text of a name, cut into the pieces the formats below can confuse:
\* bucket names may themselves contain "-to-"
Str(name) ==
    CASE name = "x-to-y" -> <<"x", "-to-", "y">>
      [] name = "y-to-z" -> <<"y", "-to-", "z">>
      [] OTHER           -> <<name>>

\* fmt.Sprintf("%s-replication-%s-to-%s", roleName, srcBucket, dstBucket)
PolicyName(roleName, srcBucket, dstBucket) ==
    Str(roleName) \o <<"-replication-">> \o Str(srcBucket) \o <<"-to-">>
       \o Str(dstBucket)

\* the policy map: read statements on the source, replicate statements on
\* the destination
PolicyDocument(srcBucket, dstBucket) ==
    [source |-> DstARN(srcBucket), destination |-> DstARN(dstBucket)]

\* ARN IAM gives a role created without a Path
DefaultArn(roleName) == <<"arn:aws:iam::role", "/", roleName>>

RolesNamed(roleName) == {r \in roles : r.name = roleName}

\* the role GetRole returns
RoleByName(roleName) == CHOOSE r \in roles : r.name = roleName

\* a slip that rebuilds the ARN from the name instead of reading GetRole's output
AdoptedArn_Built(out) == DefaultArn(out.name)

\* roleArn = aws.StringValue(out.Role.Arn)
AdoptedArn(out) == out.arn

\* dest-region flag used with each destination bucket
DestRegion(dstBucket) ==
    IF dstBucket = "A" THEN "us-east-1"
    ELSE IF dstBucket = "B" THEN "us-west-2" ELSE "eu-west-1"

\* if region != "us-east-1" { LocationConstraint = region }
LocationConstraint(region) == IF region # "us-east-1" THEN region ELSE ""

----------------------------------------------------------------------------
(* Outcomes the services can give to each call *)

\* HeadBucket answers 200 when the bucket exists and the caller may access
\* it ("exists and accessible"), whoever owns it
HeadBucketOutcomes(b) ==
    CASE buckets[b].owner = "me"          -> {"ok", "transient"}
      [] buckets[b].owner = "none"        -> {"NotFound", "transient"}
      [] buckets[b].owner = "other"       -> {"Forbidden", "transient"}
      [] buckets[b].owner = "otherShared" -> {"ok", "transient"}

CreateBucketOutcomes(b) ==
    CASE buckets[b].owner = "me"   -> {"BucketAlreadyOwnedByYou", "transient"}
      [] buckets[b].owner = "none" -> {"ok", "transient"}
      [] OTHER                     -> {"BucketAlreadyExists", "transient"}

WaitOutcomes == {"ok", "ResourceNotReady"}

VersioningOutcomes(owner) ==
    CASE owner = "me"          -> {"ok", "transient"}
      [] owner = "otherShared" -> {"ok", "AccessDenied"}
      [] OTHER                 -> {"AccessDenied"}

CreateRoleOutcomes(roleName) ==
    IF RolesNamed(roleName) # {} THEN {"EntityAlreadyExists", "transient"}
    ELSE {"ok", "transient"}

GetRoleOutcomes(roleName) ==
    IF RolesNamed(roleName) # {} THEN {"ok", "transient"} ELSE {"NoSuchEntity"}

PutRolePolicyOutcomes(roleName) ==
    IF RolesNamed(roleName) # {} THEN {"ok", "transient"} ELSE {"NoSuchEntity"}

GetBucketReplicationOutcomes ==
    IF repl.present THEN {"ok", "transient"}
    ELSE {"ReplicationConfigurationNotFoundError", "transient"}

PutBucketReplicationOutcomes == {"ok", "transient"}

----------------------------------------------------------------------------
(* The setup run: main and the functions it calls, one SDK call per step   *)

Call(name, target) == calls' = Append(calls, <<name, target>>)

\* log.Fatalf in main
Fatal(msg) == pc' = "fatal" /\ err' = msg

\* main line 18-51: flags are parsed and ensureBucketExists is entered
StartRun ==
    /\ pc \in {"idle", "done", "fatal"}
    /\ runs < MaxRuns
    /\ \E d \in RunDests, rn \in RoleNames :
          args' = [srcBucket |-> SrcBucket, dstBucket |-> d,
                   dstRegion |-> DestRegion(d), roleName |-> rn]
    /\ prev' = IF pc = "done"
               THEN [valid |-> TRUE, args |-> args, repl |-> repl,
                     roles |-> roles, fetchRes |-> fetchRes]
               ELSE NoPrev
    /\ runs' = runs + 1
    /\ pc' = "HeadBucket"
    /\ calls' = <<>>
    /\ roleArn' = NoArn
    /\ existingRules' = <<>>
    /\ fetchRes' = "none"
    /\ err' = NoErr
    /\ UNCHANGED <<buckets, srcVersioning, roles, repl, replBefore, returnedArn>>
    /\ headRes' = "none"
    /\ UNCHANGED <<granted, auxVars>>

\* ensureBucketExists: the metadata probe
HeadBucket ==
    /\ pc = "HeadBucket"
    /\ Call("HeadBucket", args.dstBucket)
    /\ \E res \in HeadBucketOutcomes(args.dstBucket) :
          /\ headRes' = res
          /\ pc' = IF res = "ok" THEN "VersioningSrc" ELSE "CreateBucket"
    /\ UNCHANGED <<buckets, srcVersioning, roles, repl, args, roleArn,
                   existingRules, fetchRes, err, runs, prev, replBefore,
                   returnedArn>>
    /\ UNCHANGED <<granted, auxVars>>

\* ensureBucketExists: the create call and the reading of its error code
CreateBucket ==
    /\ pc = "CreateBucket"
    /\ Call("CreateBucket", args.dstBucket)
    /\ \E res \in CreateBucketOutcomes(args.dstBucket) :
          CASE res = "ok" ->
                 /\ buckets' = [buckets EXCEPT ![args.dstBucket] =
                       [owner |-> "me", versioning |-> FALSE,
                        location |-> LocationConstraint(args.dstRegion)]]
                 /\ pc' = "WaitUntilBucketExists"
                 /\ err' = err
            [] res = "BucketAlreadyOwnedByYou" ->
                 /\ pc' = "VersioningSrc"
                 /\ UNCHANGED <<buckets, err>>
            [] res = "BucketAlreadyExists" ->
                 /\ Fatal("bucket already exists and is owned by another account")
                 /\ UNCHANGED buckets
            [] OTHER ->
                 /\ Fatal("CreateBucket error")
                 /\ UNCHANGED buckets
    /\ UNCHANGED <<srcVersioning, roles, repl, args, roleArn, existingRules,
                   fetchRes, runs, prev, replBefore, returnedArn>>
    /\ UNCHANGED <<granted, headRes, auxVars>>

\* ensureBucketExists: the bounded wait after a successful create
WaitUntilBucketExists ==
    /\ pc = "WaitUntilBucketExists"
    /\ Call("WaitUntilBucketExists", args.dstBucket)
    /\ \E res \in WaitOutcomes :
          IF res = "ok" THEN pc' = "VersioningSrc" /\ err' = err
          ELSE Fatal("bucket creation started but wait failed")
    /\ UNCHANGED <<buckets, srcVersioning, roles, repl, args, roleArn,
                   existingRules, fetchRes, runs, prev, replBefore, returnedArn>>
    /\ UNCHANGED <<granted, headRes, auxVars>>

\* a slip that drops the error test after the first versioning call
VersioningSrc_IgnoreError ==
    /\ pc = "VersioningSrc"
    /\ Call("PutBucketVersioning", args.srcBucket)
    /\ \E res \in VersioningOutcomes("me") :
          /\ srcVersioning' = IF res = "ok" THEN TRUE ELSE srcVersioning
          /\ pc' = "VersioningDst"
          /\ err' = err
    /\ UNCHANGED <<buckets, roles, repl, args, roleArn, existingRules,
                   fetchRes, runs, prev, replBefore, returnedArn>>
    /\ UNCHANGED <<granted, headRes, auxVars>>

\* enableBucketVersioning(s3Src, srcBucket)
VersioningSrc ==
    /\ pc = "VersioningSrc"
    /\ Call("PutBucketVersioning", args.srcBucket)
    /\ \E res \in VersioningOutcomes("me") :
          IF res = "ok"
          THEN srcVersioning' = TRUE /\ pc' = "VersioningDst" /\ err' = err
          ELSE Fatal("Failed enabling versioning on source bucket")
               /\ UNCHANGED srcVersioning
    /\ UNCHANGED <<buckets, roles, repl, args, roleArn, existingRules,
                   fetchRes, runs, prev, replBefore, returnedArn>>
    /\ UNCHANGED <<granted, headRes, auxVars>>

\* enableBucketVersioning(s3Dst, dstBucket)
VersioningDst ==
    /\ pc = "VersioningDst"
    /\ Call("PutBucketVersioning", args.dstBucket)
    /\ \E res \in VersioningOutcomes(buckets[args.dstBucket].owner) :
          IF res = "ok"
          THEN /\ buckets' = [buckets EXCEPT ![args.dstBucket].versioning = TRUE]
               /\ pc' = "CreateRole" /\ err' = err
          ELSE Fatal("Failed enabling versioning on destination bucket")
               /\ UNCHANGED buckets
    /\ UNCHANGED <<srcVersioning, roles, repl, args, roleArn, existingRules,
                   fetchRes, runs, prev, replBefore, returnedArn>>
    /\ UNCHANGED <<granted, headRes, auxVars>>

\* ensureReplicationRole: CreateRole and the reading of its error code
CreateRole ==
    /\ pc = "CreateRole"
    /\ Call("CreateRole", args.roleName)
    /\ \E res \in CreateRoleOutcomes(args.roleName) :
          CASE res = "ok" ->
                 /\ roles' = roles \cup
                       {[name |-> args.roleName, arn |-> DefaultArn(args.roleName),
                         trust |-> AssumeRolePolicy, policies |-> {}]}
                 /\ roleArn' = DefaultArn(args.roleName)
                 /\ pc' = "PutRolePolicy"
                 /\ err' = err
            [] res = "EntityAlreadyExists" ->
                 /\ pc' = "GetRole"
                 /\ UNCHANGED <<roles, roleArn, err>>
            [] OTHER ->
                 /\ Fatal("CreateRole error")
                 /\ UNCHANGED <<roles, roleArn>>
    /\ UNCHANGED <<buckets, srcVersioning, repl, args, existingRules,
                   fetchRes, runs, prev, replBefore, returnedArn>>
    /\ UNCHANGED <<granted, headRes, auxVars>>

\* ensureReplicationRole: the lookup by name after "entity already exists"
GetRole ==
    /\ pc = "GetRole"
    /\ Call("GetRole", args.roleName)
    /\ \E res \in GetRoleOutcomes(args.roleName) :
          IF res = "ok"
          THEN /\ roleArn' = AdoptedArn(RoleByName(args.roleName))
               /\ pc' = "PutRolePolicy" /\ err' = err
          ELSE /\ Fatal("role exists but failed to get role")
               /\ UNCHANGED roleArn
    /\ UNCHANGED <<buckets, srcVersioning, roles, repl, args, existingRules,
                   fetchRes, runs, prev, replBefore, returnedArn>>
    /\ UNCHANGED <<granted, headRes, auxVars>>

\* ensureReplicationRole: the inline policy, the settle delay and the return
PutRolePolicy ==
    /\ pc = "PutRolePolicy"
    /\ Call("PutRolePolicy", args.roleName)
    /\ \E res \in PutRolePolicyOutcomes(args.roleName) :
          IF res = "ok"
          THEN LET n   == PolicyName(args.roleName, args.srcBucket, args.dstBucket)
                   doc == PolicyDocument(args.srcBucket, args.dstBucket)
                   old == RoleByName(args.roleName)
                   new == [old EXCEPT !.policies =
                              {p \in old.policies : p.name # n}
                                 \cup {[name |-> n, doc |-> doc]}]
               IN  /\ roles' = (roles \ {old}) \cup {new}
                   /\ returnedArn' =
                         IF returnedArn[args.roleName] = NoArn
                         THEN [returnedArn EXCEPT ![args.roleName] = roleArn]
                         ELSE returnedArn
                   /\ granted' = [granted EXCEPT ![args.roleName] =
                                      @ \cup {<<args.srcBucket, args.dstBucket>>}]
                   /\ pc' = "GetBucketReplication"
                   /\ UNCHANGED <<roleArn, err>>
          ELSE /\ Fatal("failed to put role policy")
               /\ roleArn' = NoArn
               /\ UNCHANGED <<roles, returnedArn, granted>>
    /\ UNCHANGED <<buckets, srcVersioning, repl, args, existingRules,
                   fetchRes, runs, prev, replBefore>>
    /\ UNCHANGED <<headRes, auxVars>>

\* putReplicationConfiguration: the fetch of the existing rules
GetBucketReplication ==
    /\ pc = "GetBucketReplication"
    /\ Call("GetBucketReplication", args.srcBucket)
    /\ replBefore' = repl
    /\ \E res \in GetBucketReplicationOutcomes :
          /\ fetchRes' = res
          /\ existingRules' = FetchedRules(res, repl)
          /\ IF FetchIsFatal(res)
             THEN Fatal("GetBucketReplication failed")
             ELSE pc' = "PutBucketReplication" /\ err' = err
    /\ UNCHANGED <<buckets, srcVersioning, roles, repl, args, roleArn, runs,
                   prev, returnedArn>>
    /\ UNCHANGED <<granted, headRes, auxVars>>

\* putReplicationConfiguration: the merge and the write of the full list
PutBucketReplication ==
    /\ pc = "PutBucketReplication"
    /\ Call("PutBucketReplication", args.srcBucket)
    /\ \E res \in PutBucketReplicationOutcomes :
          IF res = "ok"
          THEN /\ repl' = [present |-> TRUE, role |-> roleArn,
                           rules |-> UpsertRules(existingRules, args.dstBucket)]
               /\ pc' = "done" /\ err' = err
          ELSE /\ Fatal("PutBucketReplication failed")
               /\ UNCHANGED repl
    /\ UNCHANGED <<buckets, srcVersioning, roles, args, roleArn, existingRules,
                   fetchRes, runs, prev, replBefore, returnedArn>>
    /\ UNCHANGED <<granted, headRes, auxVars>>

----------------------------------------------------------------------------
(* States the services can be in before the tool runs *)

\* a rule written by another tool
ForeignRule(dest, priority) ==
    [ID          |-> <<"console-rule">>,
     Status      |-> "Disabled",
     Priority    |-> priority,
     Prefix      |-> "logs/",
     Destination |-> dest,
     DMR         |-> "Enabled"]

Priorities == {NoPriority} \cup (0..MaxPrio)

RuleShapes ==
    {ForeignRule(d, p) : d \in {NoDestination} \cup {DstARN(b) : b \in Dests},
                         p \in Priorities}
    \cup {MakeRule(b, p) : b \in Dests, p \in 1..MaxPrio}

SeqsUpTo(S, n) == UNION {[1..k -> S] : k \in 1..n}

\* replication configurations found on the source bucket
Configs == SeqsUpTo(RuleShapes, MaxRules)

\* the ones used with whole setup runs
FlowConfigs ==
    SeqsUpTo({ForeignRule(DstARN(b), p) : b \in {"A", "C"},
                                          p \in {NoPriority, MaxPrio}}, MaxRules)

ForeignArn == <<"arn:aws:iam::role", "/", "other-tool-role">>

StoredRepl(rules) == [present |-> TRUE, role |-> ForeignArn, rules |-> rules]

ExistingBucket(b, owner) ==
    [owner |-> owner, versioning |-> FALSE,
     location |-> IF owner = "none" THEN "-"
                  ELSE LocationConstraint(DestRegion(b))]

\* roles of the name that may exist already: made by this tool, made under a
\* path, or made for another service
ExistingRoles(rn) ==
    {[name |-> rn, arn |-> DefaultArn(rn), trust |-> {S3Principal},
      policies |-> {}],
     [name |-> rn, arn |-> <<"arn:aws:iam::role", "/service-role/", rn>>,
      trust |-> {S3Principal}, policies |-> {}],
     [name |-> rn, arn |-> DefaultArn(rn), trust |-> {"ec2.amazonaws.com"},
      policies |-> {}]}

NoLookup == [ok |-> FALSE, constraint |-> "-"]

NoVArgs == [auto |-> TRUE, srcRegion |-> "-", dstBucket |-> "-",
            dstRegion |-> "-"]

\* the verification tool has not been started
VerifyNotStarted ==
    /\ vpc = "idle"
    /\ vargs = NoVArgs
    /\ destBuckets = <<>>
    /\ idx = 0
    /\ attempt = 0
    /\ slept = 0
    /\ checks = <<>>
    /\ found = FALSE
    /\ lookup = NoLookup
    /\ detectedRegion = "-"
    /\ polls = <<>>
    /\ compared = <<>>
    /\ verr = NoErr
    /\ vcalls = {}

\* and no destination holds an object under the key of the probe
VerifyIdle ==
    /\ objs = [b \in Dests |-> "absent"]
    /\ VerifyNotStarted

\* no concurrent reconciler has been started
RaceIdle ==
    /\ racers = <<>>
    /\ events = <<>>

\* no call has returned yet
HistIdle == upserts = <<>>

SetupIdle ==
    /\ pc = "idle"
    /\ args = NoArgs
    /\ roleArn = NoArn
    /\ existingRules = <<>>
    /\ fetchRes = "none"
    /\ err = NoErr
    /\ calls = <<>>
    /\ runs = 0
    /\ prev = NoPrev
    /\ replBefore = AbsentRepl
    /\ returnedArn = [rn \in SeriesRoleNames |-> NoArn]
    /\ granted = [rn \in SeriesRoleNames |-> {}]
    /\ headRes = "none"

InitRun ==
    /\ SetupIdle
    /\ VerifyIdle
    /\ RaceIdle
    /\ HistIdle

Init ==
    /\ \E oa \in {"none", "me", "other", "otherShared"}, ob \in {"none", "me"} :
          buckets = [b \in Dests |->
                        ExistingBucket(b, IF b = "A" THEN oa
                                          ELSE IF b = "B" THEN ob ELSE "me")]
    /\ srcVersioning \in BOOLEAN
    /\ \E present \in SUBSET RoleNames :
          \E pick \in [present -> UNION {ExistingRoles(rn) : rn \in RoleNames}] :
             /\ \A rn \in present : pick[rn] \in ExistingRoles(rn)
             /\ roles = {pick[rn] : rn \in present}
    /\ repl \in {AbsentRepl} \cup {StoredRepl(c) : c \in FlowConfigs}
    /\ InitRun

Next ==
    \/ StartRun
    \/ HeadBucket
    \/ CreateBucket
    \/ WaitUntilBucketExists
    \/ VersioningSrc
    \/ VersioningDst
    \/ CreateRole
    \/ GetRole
    \/ PutRolePolicy
    \/ GetBucketReplication
    \/ PutBucketReplication

Spec == Init /\ [][Next]_vars

\* putReplicationConfiguration called on its own, on any stored configuration
InitPut ==
    /\ buckets = [b \in Dests |-> ExistingBucket(b, "me")]
    /\ srcVersioning = TRUE
    /\ roles = {[name |-> rn, arn |-> DefaultArn(rn), trust |-> {S3Principal},
                 policies |-> {}] : rn \in RoleNames}
    /\ repl \in {AbsentRepl} \cup {StoredRepl(c) : c \in Configs}
    /\ pc = "GetBucketReplication"
    /\ \E d \in Dests, rn \in RoleNames :
          /\ args = [srcBucket |-> SrcBucket, dstBucket |-> d,
                     dstRegion |-> DestRegion(d), roleName |-> rn]
          /\ roleArn = DefaultArn(rn)
    /\ existingRules = <<>>
    /\ fetchRes = "none"
    /\ err = NoErr
    /\ calls = <<>>
    /\ runs = 1
    /\ prev = NoPrev
    /\ replBefore = AbsentRepl
    /\ returnedArn = [rn \in SeriesRoleNames |-> NoArn]
    /\ granted = [rn \in SeriesRoleNames |-> {}]
    /\ headRes = "none"
    /\ VerifyIdle
    /\ RaceIdle
    /\ HistIdle

NextPut ==
    \/ GetBucketReplication
    \/ PutBucketReplication

SpecPut == InitPut /\ [][NextPut]_vars

----------------------------------------------------------------------------
(* ensureReplicationRole called again and again, for any pair of buckets   *)

MaxEnsures == 3    \* calls of ensureReplicationRole in one behaviour

PolicySrcs == {"x", "x-to-y"}
PolicyDsts == {"y-to-z", "z"}

\* main calls ensureReplicationRole, which builds the trust document
StartEnsure ==
    /\ pc \in {"idle", "GetBucketReplication", "fatal"}
    /\ runs < MaxEnsures
    /\ \E s \in PolicySrcs, d \in PolicyDsts, rn \in RoleNames :
          args' = [srcBucket |-> s, dstBucket |-> d, dstRegion |-> "-",
                   roleName |-> rn]
    /\ runs' = runs + 1
    /\ pc' = "CreateRole"
    /\ calls' = <<>>
    /\ roleArn' = NoArn
    /\ err' = NoErr
    /\ UNCHANGED <<buckets, srcVersioning, roles, repl, existingRules,
                   fetchRes, prev, replBefore, returnedArn, granted, headRes,
                   auxVars>>

InitRole ==
    /\ buckets = [b \in Dests |-> ExistingBucket(b, "me")]
    /\ srcVersioning = TRUE
    /\ roles \in {{}} \cup {{r} : r \in UNION {ExistingRoles(rn) : rn \in RoleNames}}
    /\ repl = AbsentRepl
    /\ InitRun

NextRole ==
    \/ StartEnsure
    \/ CreateRole
    \/ GetRole
    \/ PutRolePolicy

SpecRole == InitRole /\ [][NextRole]_vars

----------------------------------------------------------------------------
(* The verification tools: the auto-discovering one (vargs.auto) and the   *)
(* one that is given its single destination by flags                       *)

\* for i := 0; i < 12; i++
MaxAttempts == 12

\* time.Sleep(10 * time.Second)
PollInterval == 10

SrcRegions == {"us-east-1", "eu-central-1"}

\* ARN of a destination in another partition of the provider
GovARN(b) == <<"arn:aws-us-gov:s3:::", b>>

\* fmt.Sscanf(arn, "arn:aws:s3:::%s", &bucketName): the literal prefix has
\* to match and a non-empty word has to follow
Sscanf(arn) ==
    IF Len(arn) = 2 /\ arn[1] = "arn:aws:s3:::" /\ arn[2] # ""
    THEN [ok |-> TRUE, bucketName |-> arn[2]]
    ELSE [ok |-> FALSE, bucketName |-> ""]

\* rule.Destination != nil && rule.Destination.Bucket != nil, and the ARN
\* scans
Scans(rule) ==
    /\ rule.Destination # NoDestination
    /\ Sscanf(rule.Destination).ok

\* a slip that falls back to a bucket when no rule gives one
CollectDestBuckets_Default(rules) ==
    LET sel == SelectSeq(rules, Scans)
    IN  IF Len(sel) = 0 THEN <<"A">>
        ELSE [i \in 1..Len(sel) |-> Sscanf(sel[i].Destination).bucketName]

\* the loop over getOut.ReplicationConfiguration.Rules: one entry is
\* appended for every rule whose destination scans
CollectDestBuckets(rules) ==
    LET sel == SelectSeq(rules, Scans)
    IN  [i \in 1..Len(sel) |-> Sscanf(sel[i].Destination).bucketName]

\* the region a bucket is really in
ActualRegion(b) ==
    CASE buckets[b].location = ""   -> "us-east-1"
      [] buckets[b].location = "EU" -> "eu-west-1"
      [] OTHER                      -> buckets[b].location

NilConstraint == "<nil>"

\* GetBucketLocation: a bucket of the original default region has no
\* location constraint (the field of the answer is nil, or is the empty
\* string); the call can also fail
GetBucketLocationOutcomes(b) ==
    IF buckets[b].owner = "none"
    THEN {NoLookup}
    ELSE {NoLookup} \cup
         (IF buckets[b].location = ""
          THEN {[ok |-> TRUE, constraint |-> NilConstraint],
                [ok |-> TRUE, constraint |-> ""]}
          ELSE {[ok |-> TRUE, constraint |-> buckets[b].location]})

\* detectedRegion := *srcRegion; if err == nil && LocationConstraint != nil
\* { "" becomes us-east-1, "EU" becomes eu-west-1 }
DetectRegion(srcRegion, out) ==
    IF out.ok /\ out.constraint # NilConstraint
    THEN LET r == IF out.constraint = "" THEN "us-east-1" ELSE out.constraint
         IN  IF r = "EU" THEN "eu-west-1" ELSE r
    ELSE srcRegion

\* HeadObject through a session of the given region: an object stored under
\* the key answers 200, whoever stored it; a request to the wrong region is
\* refused
HeadObjectOutcomes(b, region) ==
    IF region # ActualRegion(b) THEN {"PermanentRedirect"}
    ELSE IF objs[b] = "absent" THEN {"NotFound"} ELSE {"ok"}

\* listObjects: ListObjectsV2Pages collects the keys of every page, or fails
ListOutcomes(region, actual) ==
    IF region # actual THEN {"PermanentRedirect"} ELSE {"ok", "transient"}

\* flag key: the key the probe is stored under
Key == "replication-test-ss.txt"

\* the keys listObjects returns for the source after the upload
SrcObjects == {Key}

\* the keys listObjects returns for a destination
DstObjects(b) == IF objs[b] = "absent" THEN {} ELSE {Key}

\* a slip that ends the run when a destination timed out
AfterReport_StopOnTimeout(f, more) ==
    IF ~f THEN "fatal"
    ELSE IF more THEN "GetBucketLocation" ELSE "ListSource"

\* after the result line the range loop goes on to the next destination, and
\* to the listing of the source after the last one
AfterReport(f, more) ==
    IF more THEN "GetBucketLocation" ELSE "ListSource"

VCall(name, target) == vcalls' = vcalls \cup {<<name, target>>}

\* log.Fatalf in main of the verification tools
VFatal(msg) == vpc' = "fatal" /\ verr' = msg

\* the bucket the range loop is at
Cur == destBuckets[idx]

\* flags are parsed and the sessions are made
VerifyStart ==
    /\ vpc = "idle"
    /\ \/ \E r \in SrcRegions :
             vargs' = [auto |-> TRUE, srcRegion |-> r, dstBucket |-> "-",
                       dstRegion |-> "-"]
       \/ \E r \in SrcRegions, d \in RunDests :
             vargs' = [auto |-> FALSE, srcRegion |-> r, dstBucket |-> d,
                       dstRegion |-> DestRegion(d)]
    /\ vpc' = "PutObject"
    /\ UNCHANGED <<objs, destBuckets, idx, attempt, slept, checks, found,
                   lookup, detectedRegion, polls, compared, verr, vcalls,
                   setupVars, raceVars, histVars>>

\* Step 1: the probe is uploaded to the source bucket. The tool that is
\* given its destination goes on to poll it through the dest-region session
VerifyPutObject ==
    /\ vpc = "PutObject"
    /\ VCall("PutObject", SrcBucket)
    /\ \E res \in {"ok", "transient"} :
          IF res # "ok"
          THEN /\ VFatal("Failed to upload object to source bucket")
               /\ UNCHANGED <<destBuckets, idx, detectedRegion>>
          ELSE IF vargs.auto
          THEN /\ vpc' = "GetBucketReplication"
               /\ verr' = verr
               /\ UNCHANGED <<destBuckets, idx, detectedRegion>>
          ELSE /\ vpc' = "HeadObject"
               /\ verr' = verr
               /\ destBuckets' = <<vargs.dstBucket>>
               /\ idx' = 1
               /\ detectedRegion' = vargs.dstRegion
    /\ UNCHANGED <<objs, vargs, attempt, slept, checks, found, lookup, polls,
                   compared, setupVars, raceVars, histVars>>

\* Step 2: the replication configuration of the source is read and the
\* destination buckets are collected from its rules
VerifyGetBucketReplication ==
    /\ vpc = "GetBucketReplication"
    /\ VCall("GetBucketReplication", SrcBucket)
    /\ \E res \in GetBucketReplicationOutcomes :
          IF res # "ok"
          THEN /\ VFatal("Failed to get replication configuration")
               /\ UNCHANGED <<destBuckets, idx>>
          ELSE /\ destBuckets' = CollectDestBuckets(repl.rules)
               /\ IF Len(destBuckets') = 0
                  THEN /\ VFatal("No destination buckets found in replication rules.")
                       /\ idx' = idx
                  ELSE /\ vpc' = "GetBucketLocation"
                       /\ verr' = verr
                       /\ idx' = 1
    /\ UNCHANGED <<objs, vargs, attempt, slept, checks, found, lookup,
                   detectedRegion, polls, compared, setupVars, raceVars, histVars>>

\* Step 3, head of the loop body: the region of the destination is detected
VerifyGetBucketLocation ==
    /\ vpc = "GetBucketLocation"
    /\ VCall("GetBucketLocation", Cur)
    /\ \E out \in GetBucketLocationOutcomes(Cur) :
          /\ lookup' = out
          /\ detectedRegion' = DetectRegion(vargs.srcRegion, out)
    /\ vpc' = "HeadObject"
    /\ UNCHANGED <<objs, vargs, destBuckets, idx, attempt, slept, checks,
                   found, polls, compared, verr, setupVars, raceVars, histVars>>

\* one turn of the polling loop: sleep, HeadObject, break on success
VerifyHeadObject ==
    /\ vpc = "HeadObject"
    /\ attempt < MaxAttempts
    /\ slept' = slept + PollInterval
    /\ VCall("HeadObject", Cur)
    /\ attempt' = attempt + 1
    /\ \E res \in HeadObjectOutcomes(Cur, detectedRegion) :
          /\ checks' = Append(checks, res = "ok")
          /\ found' = (res = "ok")
          /\ vpc' = IF res = "ok" \/ attempt' >= MaxAttempts
                    THEN "Report" ELSE "HeadObject"
    /\ UNCHANGED <<objs, vargs, destBuckets, idx, lookup, detectedRegion,
                   polls, compared, verr, setupVars, raceVars, histVars>>

\* the result line of the destination is printed and the loop goes on
VerifyReport ==
    /\ vpc = "Report"
    /\ polls' = Append(polls, [bucket |-> Cur, region |-> detectedRegion,
                               lookup |-> lookup, found |-> found])
    /\ vpc' = AfterReport(found, idx < Len(destBuckets))
    /\ idx' = IF idx < Len(destBuckets) THEN idx + 1 ELSE idx
    /\ attempt' = 0
    /\ slept' = 0
    /\ checks' = <<>>
    /\ found' = FALSE
    /\ UNCHANGED <<objs, vargs, destBuckets, lookup, detectedRegion, compared,
                   verr, vcalls, setupVars, raceVars, histVars>>

\* Step 4: the keys of the source bucket are listed
VerifyListSource ==
    /\ vpc = "ListSource"
    /\ VCall("ListObjectsV2", SrcBucket)
    /\ \E res \in ListOutcomes(vargs.srcRegion, vargs.srcRegion) :
          IF res # "ok"
          THEN VFatal("Failed to list source bucket")
          ELSE /\ vpc' = IF vargs.auto THEN "LocateForList" ELSE "ListDest"
               /\ verr' = verr
    /\ idx' = 1
    /\ UNCHANGED <<objs, vargs, destBuckets, attempt, slept, checks, found,
                   lookup, detectedRegion, polls, compared, setupVars,
                   raceVars, histVars>>

\* head of the body of the listing loop: the region is detected once more
VerifyLocateForList ==
    /\ vpc = "LocateForList"
    /\ VCall("GetBucketLocation", Cur)
    /\ \E out \in GetBucketLocationOutcomes(Cur) :
          /\ lookup' = out
          /\ detectedRegion' = DetectRegion(vargs.srcRegion, out)
    /\ vpc' = "ListDest"
    /\ UNCHANGED <<objs, vargs, destBuckets, idx, attempt, slept, checks,
                   found, polls, compared, verr, setupVars, raceVars, histVars>>

\* the keys of the destination are listed and the counts are compared
VerifyListDest ==
    /\ vpc = "ListDest"
    /\ VCall("ListObjectsV2", Cur)
    /\ \E res \in ListOutcomes(detectedRegion, ActualRegion(Cur)) :
          IF res # "ok"
          THEN /\ VFatal("Failed to list destination bucket")
               /\ UNCHANGED <<compared, idx>>
          ELSE /\ compared' = Append(compared,
                    [bucket |-> Cur, region |-> detectedRegion,
                     lookup |-> lookup,
                     sourceCount |-> Cardinality(SrcObjects),
                     destCount |-> Cardinality(DstObjects(Cur)),
                     caughtUp |-> Cardinality(DstObjects(Cur))
                                     >= Cardinality(SrcObjects)])
               /\ verr' = verr
               /\ IF idx < Len(destBuckets)
                  THEN idx' = idx + 1 /\ vpc' = "LocateForList"
                  ELSE idx' = idx /\ vpc' = "done"
    /\ UNCHANGED <<objs, vargs, destBuckets, attempt, slept, checks, found,
                   lookup, detectedRegion, polls, setupVars, raceVars, histVars>>

\* the storage service copies the probe to a destination some rule of the
\* source names, any time after the upload
Replicate ==
    /\ vpc \notin {"idle", "PutObject", "done", "fatal"}
    /\ \E b \in Dests :
          /\ \E i \in 1..Len(repl.rules) : repl.rules[i].Destination = DstARN(b)
          /\ objs[b] # "probe"
          /\ objs' = [objs EXCEPT ![b] = "probe"]
    /\ UNCHANGED <<vpc, vargs, destBuckets, idx, attempt, slept, checks,
                   found, lookup, detectedRegion, polls, compared, verr,
                   vcalls, setupVars, raceVars, histVars>>

VerifyLocations == {"", "EU", "us-west-2"}

VerifyDestinations ==
    {NoDestination, DstARN("A"), DstARN("B"), GovARN("C")}

\* replication configurations of the source the verification tools meet
VerifyConfigs ==
    SeqsUpTo({ForeignRule(d, NoPriority) : d \in VerifyDestinations}, MaxRules)

\* the source has a configuration or none; destination A is in any of the
\* regions and may hold an object under the key already
InitVerify ==
    /\ \E la \in VerifyLocations :
          buckets = [b \in Dests |->
                       IF b = "A"
                       THEN [owner |-> "me", versioning |-> TRUE,
                             location |-> la]
                       ELSE [ExistingBucket(b, "me") EXCEPT
                                !.versioning = TRUE]]
    /\ srcVersioning = TRUE
    /\ roles = {}
    /\ repl \in {AbsentRepl} \cup {StoredRepl(c) : c \in VerifyConfigs}
    /\ SetupIdle
    /\ RaceIdle
    /\ HistIdle
    /\ VerifyNotStarted
    /\ objs \in {[b \in Dests |-> IF b = "A" THEN o ELSE "absent"] :
                    o \in {"absent", "stale"}}

NextVerify ==
    \/ VerifyStart
    \/ VerifyPutObject
    \/ VerifyGetBucketReplication
    \/ VerifyGetBucketLocation
    \/ VerifyHeadObject
    \/ VerifyReport
    \/ VerifyListSource
    \/ VerifyLocateForList
    \/ VerifyListDest
    \/ Replicate

SpecVerify == InitVerify /\ [][NextVerify]_vars

----------------------------------------------------------------------------
(* Two putReplicationConfiguration calls of two processes, for distinct    *)
(* destinations, on the same source bucket                                 *)

Racers == {1, 2}

Other(id) == CHOOSE o \in Racers : o # id

\* a process that has entered putReplicationConfiguration
Entered(d, rn) ==
    [pc |-> "GetBucketReplication", dstBucket |-> d, roleArn |-> DefaultArn(rn),
     existingRules |-> <<>>, fetchRes |-> "none"]

\* lines 256-264 in process id: the stored rules are read into its own
\* existingRules
RaceGetBucketReplication(id) ==
    /\ racers[id].pc = "GetBucketReplication"
    /\ \E res \in GetBucketReplicationOutcomes :
          racers' = [racers EXCEPT
                       ![id].fetchRes = res,
                       ![id].existingRules = FetchedRules(res, repl),
                       ![id].pc = IF FetchIsFatal(res) THEN "fatal"
                                  ELSE "PutBucketReplication"]
    /\ events' = Append(events, <<"fetch", id>>)
    /\ UNCHANGED <<setupVars, verifyVars, histVars>>

\* lines 266-326 in process id: its own list is merged and written as the
\* whole configuration
RacePutBucketReplication(id) ==
    /\ racers[id].pc = "PutBucketReplication"
    /\ \E res \in PutBucketReplicationOutcomes :
          IF res = "ok"
          THEN /\ repl' = [present |-> TRUE, role |-> racers[id].roleArn,
                           rules |-> UpsertRules(racers[id].existingRules,
                                                 racers[id].dstBucket)]
               /\ racers' = [racers EXCEPT ![id].pc = "done"]
          ELSE /\ racers' = [racers EXCEPT ![id].pc = "fatal"]
               /\ UNCHANGED repl
    /\ events' = Append(events, <<"write", id>>)
    /\ UNCHANGED <<buckets, srcVersioning, roles, pc, args, roleArn,
                   existingRules, fetchRes, err, calls, runs, prev, replBefore,
                   returnedArn, granted, headRes, verifyVars,
                   histVars>>

\* both processes have entered the call, on any stored configuration
InitRace ==
    /\ buckets = [b \in Dests |-> ExistingBucket(b, "me")]
    /\ srcVersioning = TRUE
    /\ roles = {[name |-> rn, arn |-> DefaultArn(rn), trust |-> {S3Principal},
                 policies |-> {}] : rn \in RoleNames}
    /\ repl \in {AbsentRepl} \cup {StoredRepl(c) : c \in FlowConfigs}
    /\ pc = "idle"
    /\ args = NoArgs
    /\ roleArn = NoArn
    /\ existingRules = <<>>
    /\ fetchRes = "none"
    /\ err = NoErr
    /\ calls = <<>>
    /\ runs = 0
    /\ prev = NoPrev
    /\ replBefore = repl
    /\ returnedArn = [rn \in SeriesRoleNames |-> NoArn]
    /\ granted = [rn \in SeriesRoleNames |-> {}]
    /\ headRes = "none"
    /\ VerifyIdle
    /\ \E d1 \in Dests, rn \in RoleNames : \E d2 \in Dests \ {d1} :
          racers = [id \in Racers |-> Entered(IF id = 1 THEN d1 ELSE d2, rn)]
    /\ events = <<>>
    /\ HistIdle

NextRace ==
    \/ \E id \in Racers : RaceGetBucketReplication(id)
    \/ \E id \in Racers : RacePutBucketReplication(id)

SpecRace == InitRace /\ [][NextRace]_vars

----------------------------------------------------------------------------
(* A process runs one of the tools; every call it makes returns *)

\* the steps of a setup run once it has been started
SetupStep ==
    \/ HeadBucket
    \/ CreateBucket
    \/ WaitUntilBucketExists
    \/ VersioningSrc
    \/ VersioningDst
    \/ CreateRole
    \/ GetRole
    \/ PutRolePolicy
    \/ GetBucketReplication
    \/ PutBucketReplication

\* the steps of a verification run once it has been started
VerifyStep ==
    \/ VerifyPutObject
    \/ VerifyGetBucketReplication
    \/ VerifyGetBucketLocation
    \/ VerifyHeadObject
    \/ VerifyReport
    \/ VerifyListSource
    \/ VerifyLocateForList
    \/ VerifyListDest

\* the setup tool is run (again and again), or the verification tool is
NextTerm ==
    \/ vpc = "idle" /\ StartRun
    \/ vpc = "idle" /\ SetupStep
    \/ pc = "idle" /\ runs = 0 /\ VerifyStart
    \/ pc = "idle" /\ runs = 0 /\ VerifyStep
    \/ pc = "idle" /\ runs = 0 /\ Replicate

\* destination A exists or not, the role exists or not, and the source has
\* no configuration, one rule for A or two
InitTerm ==
    /\ \E oa \in {"none", "me"} :
          buckets = [b \in Dests |->
                        ExistingBucket(b, IF b = "A" THEN oa ELSE "me")]
    /\ srcVersioning = TRUE
    /\ roles \in {{}} \cup
                {{[name |-> rn, arn |-> DefaultArn(rn), trust |-> {S3Principal},
                   policies |-> {}]} : rn \in RoleNames}
    /\ repl \in {AbsentRepl,
                 StoredRepl(<<ForeignRule(DstARN("A"), NoPriority)>>),
                 StoredRepl(<<ForeignRule(DstARN("A"), NoPriority),
                              ForeignRule(DstARN("A"), MaxPrio)>>)}
    /\ InitRun

\* a started run is a sequential process whose calls all return: its next
\* step is eventually taken
SpecTerm ==
    /\ InitTerm
    /\ [][NextTerm]_vars
    /\ WF_vars(vpc = "idle" /\ SetupStep)
    /\ WF_vars(pc = "idle" /\ runs = 0 /\ VerifyStep)

----------------------------------------------------------------------------
(* putReplicationConfiguration called again and again by one caller, on a  *)
(* source bucket that starts without configuration                         *)

MaxPuts == 3

\* the caller enters putReplicationConfiguration for some destination
CallPut ==
    /\ pc \in {"idle", "fatal"}
    /\ runs < MaxPuts
    /\ \E d \in Dests, rn \in RoleNames :
          /\ args' = [srcBucket |-> SrcBucket, dstBucket |-> d,
                      dstRegion |-> DestRegion(d), roleName |-> rn]
          /\ roleArn' = DefaultArn(rn)
    /\ runs' = runs + 1
    /\ pc' = "GetBucketReplication"
    /\ calls' = <<>>
    /\ existingRules' = <<>>
    /\ fetchRes' = "none"
    /\ err' = NoErr
    /\ UNCHANGED <<buckets, srcVersioning, roles, repl, prev, replBefore,
                   returnedArn, granted, headRes, auxVars>>

\* return nil: the caller notes the call that succeeded
ReturnPut ==
    /\ pc = "done"
    /\ pc' = "idle"
    /\ upserts' = Append(upserts, [dstBucket |-> args.dstBucket,
                                   roleArn |-> roleArn,
                                   fetchRes |-> fetchRes])
    /\ UNCHANGED <<buckets, srcVersioning, roles, repl, args, roleArn,
                   existingRules, fetchRes, err, calls, runs, prev, replBefore,
                   returnedArn, granted, headRes, verifyVars, raceVars>>

InitSeq ==
    /\ buckets = [b \in Dests |-> ExistingBucket(b, "me")]
    /\ srcVersioning = TRUE
    /\ roles = {[name |-> rn, arn |-> DefaultArn(rn), trust |-> {S3Principal},
                 policies |-> {}] : rn \in RoleNames}
    /\ repl = AbsentRepl
    /\ InitRun

NextSeq ==
    \/ CallPut
    \/ GetBucketReplication
    \/ PutBucketReplication
    \/ ReturnPut

SpecSeq == InitSeq /\ [][NextSeq]_vars

----------------------------------------------------------------------------
(* A series of setup runs on one source bucket that starts without         *)
(* configuration, each run started after the one before has completed      *)

\* main line 18-51 of the next run of the series
StartSeries ==
    /\ pc \in {"idle", "done"}
    /\ runs < MaxRuns
    /\ \E d \in RunDests, rn \in SeriesRoleNames :
          args' = [srcBucket |-> SrcBucket, dstBucket |-> d,
                   dstRegion |-> DestRegion(d), roleName |-> rn]
    /\ prev' = IF pc = "done"
               THEN [valid |-> TRUE, args |-> args, repl |-> repl,
                     roles |-> roles, fetchRes |-> fetchRes]
               ELSE NoPrev
    /\ runs' = runs + 1
    /\ pc' = "HeadBucket"
    /\ calls' = <<>>
    /\ roleArn' = NoArn
    /\ existingRules' = <<>>
    /\ fetchRes' = "none"
    /\ err' = NoErr
    /\ headRes' = "none"
    /\ UNCHANGED <<buckets, srcVersioning, roles, repl, replBefore,
                   returnedArn, granted, auxVars>>

InitSeries ==
    /\ \E oa \in {"none", "me"} :
          buckets = [b \in Dests |->
                        ExistingBucket(b, IF b = "A" THEN oa ELSE "me")]
    /\ srcVersioning = TRUE
    /\ roles = {}
    /\ repl = AbsentRepl
    /\ InitRun

NextSeries ==
    \/ StartSeries
    \/ HeadBucket
    \/ CreateBucket
    \/ WaitUntilBucketExists
    \/ VersioningSrc
    \/ VersioningDst
    \/ CreateRole
    \/ GetRole
    \/ PutRolePolicy
    \/ GetBucketReplication
    \/ PutBucketReplication

SpecSeries == InitSeries /\ [][NextSeries]_vars

----------------------------------------------------------------------------
(* Properties *)

Target == DstARN(args.dstBucket)

\* the rule list the last successful write stored
Written == repl.rules

RulesFor(rules, dest) == {i \in 1..Len(rules) : rules[i].Destination = dest}

\* largest priority among the rules, a rule without priority counting as 0
HighestPriority(rules) ==
    LET S == {0} \cup {rules[i].Priority : i \in 1..Len(rules)}
    IN  CHOOSE m \in S : \A x \in S : m >= x

CleanFetch(res) == res # "transient"

PoliciesOf(rs, rn) == UNION {r.policies : r \in {x \in rs : x.name = rn}}

\* C1: when a setup run completes right after a completed run with the same
\* flags, and no fetch failed in either, the stored replication configuration
\* is the one the first run left (rules, order, ids, priorities, role), and
\* the numbers of roles of that name, of inline policies on it and of rules
\* for the destination are those the first run left.
IdempotentSetup ==
    (pc = "done" /\ prev.valid /\ prev.args = args
       /\ CleanFetch(fetchRes) /\ CleanFetch(prev.fetchRes))
    => /\ repl = prev.repl
       /\ Cardinality(RolesNamed(args.roleName))
             = Cardinality({r \in prev.roles : r.name = args.roleName})
       /\ Cardinality(PoliciesOf(roles, args.roleName))
             = Cardinality(PoliciesOf(prev.roles, args.roleName))
       /\ Cardinality(RulesFor(repl.rules, Target))
             = Cardinality(RulesFor(prev.repl.rules, Target))

\* a second run with the same flags completed on a configuration of several rules
IdempotentSetupWitness ==
    /\ pc = "done" /\ prev.valid /\ prev.args = args
    /\ CleanFetch(fetchRes) /\ CleanFetch(prev.fetchRes)
    /\ Len(repl.rules) >= 2
    /\ <<"GetRole", args.roleName>> \in {calls[i] : i \in 1..Len(calls)}

BootstrapFromNoConfiguration ==
    fetchRes = "ReplicationConfigurationNotFoundError"
    => \/ pc = "PutBucketReplication" /\ err = NoErr
       \/ /\ pc = "done"
          /\ Len(Written) = 1
          /\ Written[1].Destination = Target
          /\ Written[1].Priority = 1
       \/ pc = "fatal" /\ err = "PutBucketReplication failed"

\* the first configuration of a bucket has been written
BootstrapFromNoConfigurationWitness ==
    /\ fetchRes = "ReplicationConfigurationNotFoundError"
    /\ pc = "done"
    /\ ~replBefore.present
    /\ repl.present

SameDestination(r1, r2) ==
    r1.Destination # NoDestination /\ r1.Destination = r2.Destination

\* C5 as claimed: a successful call never writes two rules with the same
\* destination reference, whatever it read.
NoDuplicateDestinations ==
    pc = "done" =>
      \A i, j \in 1..Len(Written) :
         i # j => ~SameDestination(Written[i], Written[j])

\* C5: a successful call writes, for every destination reference, as many
\* rules as it fetched, except one rule for the target when it fetched none;
\* so it writes two rules with the same destination only if it fetched two.
DestinationCountsPreserved ==
    pc = "done" =>
      /\ \A b \in Dests :
            Cardinality(RulesFor(Written, DstARN(b))) =
               IF b = args.dstBucket /\ RulesFor(existingRules, DstARN(b)) = {}
               THEN 1
               ELSE Cardinality(RulesFor(existingRules, DstARN(b)))
      /\ (\A i, j \in 1..Len(existingRules) :
             i # j => ~SameDestination(existingRules[i], existingRules[j]))
         => \A i, j \in 1..Len(Written) :
               i # j => ~SameDestination(Written[i], Written[j])

\* an upsert into two rules for distinct destinations, one of them the target
DestinationCountsPreservedWitness ==
    /\ pc = "done" /\ fetchRes = "ok"
    /\ Len(existingRules) = 2
    /\ existingRules[1].Destination = Target
    /\ existingRules[2].Destination \notin {Target, NoDestination}
    /\ Len(Written) = 2

ValidPriorities(rules) ==
    /\ \A i \in 1..Len(rules) : rules[i].Priority \in Nat
    /\ \A i, j \in 1..Len(rules) :
          i # j => rules[i].Priority # rules[j].Priority

\* the fetched rules are such that giving the first rule for the target a
\* priority is all that is missing
RepairablePriorities(rules, dest) ==
    /\ \A i \in 1..Len(rules) :
          rules[i].Priority = NoPriority
          => /\ rules[i].Destination = dest
             /\ \A j \in 1..(i - 1) : rules[j].Destination # dest
    /\ \A i, j \in 1..Len(rules) :
          (i # j /\ rules[i].Priority # NoPriority)
          => rules[i].Priority # rules[j].Priority

\* C6 as claimed: in the configuration a successful call writes, every rule
\* carries a non-negative priority and no two rules share one, whatever it read.
DistinctPriorities ==
    pc = "done" => ValidPriorities(Written)

\* C6: the written rules all carry distinct non-negative priorities exactly
\* when the fetched rules carry distinct priorities and none lacks one, the
\* first rule for the target excepted; the call gives the target rule a
\* priority and leaves the priorities of the other rules as they are.
PrioritiesValidWhenReadValid ==
    pc = "done" =>
      /\ ValidPriorities(Written)
            <=> RepairablePriorities(existingRules, Target)
      /\ \A i \in RulesFor(Written, Target) :
            (\A j \in RulesFor(Written, Target) : i <= j)
            => Written[i].Priority \in Nat
      /\ \A j \in 1..Len(existingRules) :
            existingRules[j].Destination # Target
            => Written[j].Priority = existingRules[j].Priority

\* a destination added to two rules with distinct priorities
PrioritiesValidWhenReadValidWitness ==
    /\ pc = "done" /\ fetchRes = "ok"
    /\ Len(existingRules) = 2
    /\ ValidPriorities(existingRules)
    /\ RulesFor(existingRules, Target) = {}
    /\ ValidPriorities(Written)

HasCall(name) == \E i \in 1..Len(calls) : calls[i][1] = name

\* C7 as claimed: when the fetch fails with an error other than "no
\* configuration exists", the call returns an error, makes no write and
\* leaves the stored configuration as it was.
FetchFailureIsFatal ==
    (fetchRes = "transient" /\ pc \in {"done", "fatal"})
    => /\ pc = "fatal"
       /\ ~HasCall("PutBucketReplication")
       /\ repl = replBefore

OwnedByOther(b) == buckets[b].owner \in {"other", "otherShared"}

\* C8 as claimed: in a run whose destination bucket belongs to another
\* account, ensureBucketExists returns an error and no call of a later stage
\* (versioning, role, policy, replication configuration) is made.
OwnershipConflictAborts ==
    (pc # "idle" /\ OwnedByOther(args.dstBucket))
    => /\ pc \in {"HeadBucket", "CreateBucket", "fatal"}
       /\ \A i \in 1..Len(calls) : calls[i][1] \in {"HeadBucket", "CreateBucket"}

Returned ==
    \/ pc \in {"GetBucketReplication", "PutBucketReplication", "done"}
    \/ pc = "fatal" /\ err = "PutBucketReplication failed"

\* C9: the ARN ensureReplicationRole returns is the ARN of the one role of the
\* given name, whether CreateRole made it or reported that it exists; every
\* run gets the same ARN for a name; there is never more than one role of a
\* name; and when CreateRole fails otherwise, or GetRole fails, the function
\* returns no ARN and has made no PutRolePolicy call.
CreateOrAdoptRole ==
    /\ \A rn \in RoleNames : Cardinality(RolesNamed(rn)) <= 1
    /\ Returned =>
          /\ roleArn # NoArn
          /\ \E r \in roles : r.name = args.roleName /\ r.arn = roleArn
          /\ roleArn = returnedArn[args.roleName]
    /\ (pc = "fatal" /\ err \in {"CreateRole error",
                                 "role exists but failed to get role"})
       => roleArn = NoArn /\ ~HasCall("PutRolePolicy")

\* a later run adopted a role that lives under a path
CreateOrAdoptRoleWitness ==
    /\ pc = "done" /\ runs = 2
    /\ HasCall("GetRole")
    /\ roleArn # DefaultArn(args.roleName)
    /\ roleArn = returnedArn[args.roleName]

TrustOf(arn) == UNION {r.trust : r \in {x \in roles : x.arn = arn}}

\* C10 as claimed: the role whose ARN ensureReplicationRole returned, created
\* or adopted, lets exactly the storage service principal assume it, and no
\* step adds a principal to the trust policy of a role.
TrustPolicyExactlyS3 ==
    /\ [](Returned => TrustOf(roleArn) = {S3Principal})
    /\ [][\A r \in roles : \A q \in roles' :
             q.arn = r.arn => q.trust \subseteq r.trust]_vars

\* C11 as claimed: a role holds exactly one inline policy for each distinct
\* (source, destination) pair ensureReplicationRole attached a policy for,
\* under the name "<roleName>-replication-<src>-to-<dst>" and with the
\* document of that pair.
OnePolicyPerPair ==
    \A rn \in RoleNames : \A r \in RolesNamed(rn) :
       /\ Cardinality(r.policies) = Cardinality(granted[rn])
       /\ \A pr \in granted[rn] :
             \E p \in r.policies :
                /\ p.name = PolicyName(rn, pr[1], pr[2])
                /\ p.doc = PolicyDocument(pr[1], pr[2])

\* the stage of main an SDK call belongs to
Stage(c) ==
    CASE c[1] \in {"HeadBucket", "CreateBucket", "WaitUntilBucketExists"} -> 1
      [] c[1] = "PutBucketVersioning" /\ c[2] = args.srcBucket -> 2
      [] c[1] = "PutBucketVersioning" /\ c[2] # args.srcBucket -> 3
      [] c[1] \in {"CreateRole", "GetRole", "PutRolePolicy"} -> 4
      [] c[1] \in {"GetBucketReplication", "PutBucketReplication"} -> 5

\* the stage of main the next call belongs to
StageOfPc ==
    CASE pc \in {"HeadBucket", "CreateBucket", "WaitUntilBucketExists"} -> 1
      [] pc = "VersioningSrc" -> 2
      [] pc = "VersioningDst" -> 3
      [] pc \in {"CreateRole", "GetRole", "PutRolePolicy"} -> 4
      [] pc \in {"GetBucketReplication", "PutBucketReplication"} -> 5
      [] OTHER -> 6

\* the stage whose failure main reports with the message
StageOfErr(msg) ==
    CASE msg \in {"bucket already exists and is owned by another account",
                  "CreateBucket error",
                  "bucket creation started but wait failed"} -> 1
      [] msg = "Failed enabling versioning on source bucket" -> 2
      [] msg = "Failed enabling versioning on destination bucket" -> 3
      [] msg \in {"CreateRole error", "role exists but failed to get role",
                  "failed to put role policy"} -> 4
      [] msg \in {"GetBucketReplication failed",
                  "PutBucketReplication failed"} -> 5
      [] OTHER -> 0

\* what a stage that succeeded leaves behind
StageDone(k) ==
    CASE k = 1 -> buckets[args.dstBucket].owner # "none"
      [] k = 2 -> srcVersioning
      [] k = 3 -> buckets[args.dstBucket].versioning
      [] k = 4 -> \E r \in RolesNamed(args.roleName) : \E p \in r.policies :
                     p.name = PolicyName(args.roleName, args.srcBucket,
                                         args.dstBucket)
      [] k = 5 -> repl.present /\ RulesFor(repl.rules, Target) # {}

\* C12: the calls of a run come in the order of the five stages (ensure
\* destination bucket, versioning on source, versioning on destination, role
\* and policy, replication configuration); a call of a stage is made only when
\* every earlier stage was entered and succeeded, and what those stages did is
\* still in place; a run that ends on an error ended in the stage of its last
\* call, so no later stage made a call; a run that completes went through all.
FailFastStaging ==
    pc # "idle" =>
      /\ \A i, j \in 1..Len(calls) : i < j => Stage(calls[i]) <= Stage(calls[j])
      /\ \A i \in 1..Len(calls) : \A k \in 1..(Stage(calls[i]) - 1) :
            /\ StageDone(k)
            /\ \E j \in 1..(i - 1) : Stage(calls[j]) = k
      /\ pc = "fatal" =>
            /\ calls # <<>>
            /\ StageOfErr(err) = Stage(calls[Len(calls)])
      /\ pc = "done" =>
            /\ \A k \in 1..5 : StageDone(k)
            /\ Stage(calls[Len(calls)]) = 5
      /\ pc \notin {"fatal", "done"} =>
            \A k \in 1..(StageOfPc - 1) : StageDone(k)

\* a run stopped by the role stage after it created the bucket and enabled
\* versioning on both buckets, which stay as they are
FailFastStagingWitness ==
    /\ pc = "fatal"
    /\ StageOfErr(err) = 4
    /\ HasCall("CreateBucket")
    /\ buckets[args.dstBucket].owner = "me"
    /\ buckets[args.dstBucket].versioning
    /\ srcVersioning
    /\ ~HasCall("GetBucketReplication")

\* C20 as claimed: ensureBucketExists calls CreateBucket only when HeadBucket
\* reported the bucket absent; after a successful HeadBucket it makes no
\* create call, and after a HeadBucket that failed with a transient error it
\* returns that error without a create call.
CreateOnlyWhenAbsent ==
    pc # "idle" =>
      /\ HasCall("CreateBucket") => headRes = "NotFound"
      /\ headRes = "ok" => ~HasCall("CreateBucket")
      /\ headRes = "transient" =>
            /\ pc = "fatal"
            /\ ~HasCall("CreateBucket")

----------------------------------------------------------------------------
(* Properties of the verification tools *)

\* the polling loop of the current destination is running or has just ended
Polling == vpc \in {"HeadObject", "Report"}

\* the polling sequences on bucket d that ended without finding the probe
TimedOutOn(d) == {i \in 1..Len(polls) : polls[i].bucket = d /\ ~polls[i].found}

\* the polling sequences on bucket d that found an object under the key
FoundOn(d) == {i \in 1..Len(polls) : polls[i].bucket = d /\ polls[i].found}

\* no presence check on d has succeeded in this run
NeverReported(d) ==
    /\ FoundOn(d) = {}
    /\ ~(Polling /\ Cur = d /\ found)

\* presence checks made on d so far in this run, when none succeeded
ChecksOn(d) ==
    MaxAttempts * Cardinality(TimedOutOn(d))
       + (IF Polling /\ Cur = d THEN attempt ELSE 0)

ListErrors == {"Failed to list source bucket",
               "Failed to list destination bucket"}

\* C13: on a destination that never reports the probe the run makes exactly
\* 12 presence checks, each after one 10 second sleep (120 seconds in all),
\* then records found = false for it and goes on; a run that timed out on a
\* destination is never ended for that reason
VerificationBounds ==
    \A d \in Dests :
       NeverReported(d) =>
          /\ ChecksOn(d) <= MaxAttempts
          /\ TimedOutOn(d) # {} => ChecksOn(d) = MaxAttempts
          /\ (Polling /\ Cur = d) =>
                /\ slept = PollInterval * attempt
                /\ vpc = "Report" => /\ attempt = MaxAttempts
                                     /\ slept = 120
          /\ (TimedOutOn(d) # {} /\ vpc = "fatal") => verr \in ListErrors

\* C14: the k-th presence check of a destination is the first to succeed
\* exactly when polling ends Found after k checks, polling ends TimedOut
\* exactly when 12 checks failed, and once a destination is Found or
\* TimedOut no further presence check is made on it, so that it is never
\* both
PollingStateMachine ==
    /\ Polling =>
          /\ Len(checks) = attempt
          /\ attempt <= MaxAttempts
          /\ \A i \in 1..(attempt - 1) : ~checks[i]
          /\ found <=> (attempt >= 1 /\ checks[attempt])
          /\ \A i \in 1..Len(polls) : polls[i].bucket # Cur
    /\ vpc = "HeadObject" => ~found /\ attempt < MaxAttempts
    /\ vpc = "Report" => (~found <=> (attempt = MaxAttempts
                                      /\ \A i \in 1..MaxAttempts : ~checks[i]))
    /\ \A i, j \in 1..Len(polls) :
          polls[i].bucket = polls[j].bucket => polls[i].found = polls[j].found

\* the run has read the configuration of the source and collected from it
Discovered ==
    /\ vargs.auto
    /\ \/ vpc \in {"GetBucketLocation", "HeadObject", "Report", "ListSource",
                   "LocateForList", "ListDest", "done"}
       \/ vpc = "fatal" /\ verr \in ListErrors \cup
                  {"No destination buckets found in replication rules."}

\* the buckets the rules of the source's configuration refer to
Referenced ==
    {repl.rules[i].Destination[2] :
        i \in {j \in 1..Len(repl.rules) :
                  repl.rules[j].Destination # NoDestination}}

Distinct(seq) ==
    \A i, j \in 1..Len(seq) : seq[i].bucket = seq[j].bucket => i = j

\* C16: the destinations the verifier polls are exactly the distinct
\* destinations the rules of the source refer to, and each of them is polled
\* and reported once per run, also when several rules name it
DistinctDestinationDiscovery ==
    Discovered =>
       /\ {destBuckets[i] : i \in 1..Len(destBuckets)} = Referenced
       /\ \A i, j \in 1..Len(destBuckets) :
             destBuckets[i] = destBuckets[j] => i = j
       /\ Distinct(polls)
       /\ Distinct(compared)
       /\ vpc \in {"ListSource", "LocateForList", "ListDest", "done"} =>
             {polls[i].bucket : i \in 1..Len(polls)} = Referenced

\* the records of a run that looked the region of the destination up
Located ==
    {polls[i] : i \in 1..Len(polls)} \cup
    {compared[i] : i \in 1..Len(compared)}

\* C17: a destination whose location lookup gives an empty or an absent
\* location constraint is polled and listed in us-east-1, whatever the
\* source-region flag is, and one whose lookup gives "EU" in eu-west-1
RegionNormalization ==
    \A r \in {[bucket |-> q.bucket, region |-> q.region, lookup |-> q.lookup] :
                 q \in Located} :
       r.lookup.ok =>
          /\ r.lookup.constraint \in {"", NilConstraint} => r.region = "us-east-1"
          /\ r.lookup.constraint = "EU" => r.region = "eu-west-1"

\* C19: found = true is recorded for a destination only if the probe this
\* run uploaded is there: an object an earlier run left under the same key
\* does not make the check succeed
ProbeSoundness ==
    /\ (vpc = "Report" /\ found) => objs[Cur] = "probe"
    /\ \A i \in 1..Len(polls) :
          polls[i].found => objs[polls[i].bucket] = "probe"

\* every collected destination has its polling record, in the order collected
AllPolled ==
    /\ Len(polls) = Len(destBuckets)
    /\ \A i \in 1..Len(polls) : polls[i].bucket = destBuckets[i]

\* every collected destination has its comparison, in the order collected
AllCompared ==
    /\ Len(compared) = Len(destBuckets)
    /\ \A i \in 1..Len(compared) : compared[i].bucket = destBuckets[i]

\* C15 as stated: a run that collected destinations ends with every one of
\* them polled and compared
EveryDestinationCompared ==
    (vpc \in {"done", "fatal"} /\ destBuckets # <<>>) =>
       /\ AllPolled
       /\ AllCompared

\* C15: a run that collected destinations polls every one of them whatever
\* the earlier ones did (nothing ends the run between the collection and the
\* end of the polling), and compares every one of them unless a listing
\* fails, which is the only thing that ends such a run early
LenientVerification ==
    destBuckets # <<>> =>
       /\ vpc = "fatal" => verr \in ListErrors
       /\ vpc \in {"GetBucketLocation", "HeadObject", "Report"} =>
             /\ Len(polls) = idx - 1
             /\ \A i \in 1..Len(polls) : polls[i].bucket = destBuckets[i]
       /\ vpc \in {"ListSource", "LocateForList", "ListDest", "done", "fatal"}
             => AllPolled
       /\ vpc = "done" => AllCompared

\* a run of two destinations ends with both compared although the first one
\* timed out
LenientVerificationWitness ==
    /\ vpc = "done"
    /\ Len(destBuckets) = 2
    /\ destBuckets[1] # destBuckets[2]
    /\ ~polls[1].found
    /\ polls[2].found
    /\ AllPolled
    /\ AllCompared

----------------------------------------------------------------------------
(* Properties of two concurrent putReplicationConfiguration calls *)

\* both calls have returned nil
BothDone == \A id \in Racers : racers[id].pc = "done"

\* the process whose write came last
LastWriter == events[Len(events)][2]

\* both processes read before either wrote
Interleaved ==
    /\ Len(events) >= 2
    /\ events[1][1] = "fetch"
    /\ events[2][1] = "fetch"

\* one process read and wrote before the other read
Serialized ==
    /\ Len(events) >= 2
    /\ events[1][1] = "fetch"
    /\ events[2] = <<"write", events[1][2]>>

HasRuleFor(rules, d) == \E k \in 1..Len(rules) : rules[k].Destination = DstARN(d)

\* C18: after two putReplicationConfiguration calls for distinct destinations
\* on one source bucket the stored configuration is the one the later writer
\* wrote; when both read before either wrote it lacks the rule of the earlier
\* writer (unless a rule for that destination was stored before), and when
\* the calls ran one after the other it holds the rules of both
LastWriterWins ==
    BothDone =>
       LET w == LastWriter
           o == Other(w)
       IN  /\ repl = [present |-> TRUE, role |-> racers[w].roleArn,
                      rules |-> UpsertRules(racers[w].existingRules,
                                            racers[w].dstBucket)]
           /\ (Interleaved /\ ~HasRuleFor(replBefore.rules, racers[o].dstBucket))
                 => ~HasRuleFor(repl.rules, racers[o].dstBucket)
           /\ Serialized =>
                 \A id \in Racers : HasRuleFor(repl.rules, racers[id].dstBucket)

\* the lost update: both calls returned nil and the rule of one is not stored
LostUpdate ==
    /\ BothDone
    /\ Interleaved
    /\ \A id \in Racers : racers[id].fetchRes # "transient"
    /\ ~HasRuleFor(repl.rules, racers[Other(LastWriter)].dstBucket)

----------------------------------------------------------------------------
(* Properties of the written rule and of the stored role reference *)

\* the fields the tool gives the rule of its destination
Normalized(r, dstBucket) ==
    /\ r.ID = <<"replicate-to-", dstBucket>>
    /\ r.Status = "Enabled"
    /\ r.Prefix = ""
    /\ r.DMR = "Disabled"
    /\ r.Destination = <<"arn:aws:s3:::", dstBucket>>

\* position of the first rule for the destination, 0 if there is none
FirstFor(rules, dest) ==
    IF RulesFor(rules, dest) = {} THEN 0
    ELSE CHOOSE i \in RulesFor(rules, dest) :
            \A j \in RulesFor(rules, dest) : i <= j

\* C21 as stated: after a successful call every rule for the destination in
\* the written configuration has the derived id, status Enabled, the empty
\* prefix and delete-marker replication Disabled
EveryTargetRuleNormalized ==
    pc = "done" =>
       /\ RulesFor(Written, Target) # {}
       /\ \A i \in RulesFor(Written, Target) :
             Normalized(Written[i], args.dstBucket)

\* C21: after a successful call the first rule for the destination in the
\* written configuration has the derived id, status Enabled, the empty prefix
\* and delete-marker replication Disabled, whatever the rule read at that
\* position had and also when it was appended; any further rule for the
\* destination is the rule that was read
RuleNormalization ==
    pc = "done" =>
       LET f == FirstFor(Written, Target)
       IN  /\ f # 0
           /\ Normalized(Written[f], args.dstBucket)
           /\ \A i \in RulesFor(Written, Target) \ {f} :
                 /\ i <= Len(existingRules)
                 /\ Written[i] = existingRules[i]

\* an update replaced a rule that had another id, status, prefix and
\* delete-marker setting
RuleNormalizationWitness ==
    /\ pc = "done"
    /\ \E i \in 1..Len(existingRules) :
          /\ existingRules[i].Destination = Target
          /\ existingRules[i].ID # <<"replicate-to-", args.dstBucket>>
          /\ existingRules[i].Status = "Disabled"
          /\ existingRules[i].Prefix = "logs/"
          /\ existingRules[i].DMR = "Enabled"
          /\ Normalized(Written[i], args.dstBucket)

\* the auto-discovering run has asked for the configuration of the source
AskedConfiguration ==
    /\ vargs.auto
    /\ <<"GetBucketReplication", SrcBucket>> \in vcalls

\* the run ended at the second step: the probe was uploaded and no bucket
\* was located, probed or listed
StoppedAtDiscovery ==
    /\ vpc = "fatal"
    /\ verr \in {"Failed to get replication configuration",
                 "No destination buckets found in replication rules."}
    /\ <<"PutObject", SrcBucket>> \in vcalls
    /\ \A c \in vcalls :
          c[1] \notin {"GetBucketLocation", "HeadObject", "ListObjectsV2"}

\* C22: when the configuration of the source cannot be read, is absent or
\* holds no destination reference, the auto-discovering run ends with a fatal
\* error after the upload of the probe and before any location lookup,
\* presence check or listing; a run that goes on has read a configuration
\* and collected a destination from it
NothingToVerify ==
    AskedConfiguration =>
       /\ (~repl.present \/ Referenced = {}) => StoppedAtDiscovery
       /\ verr \in {"Failed to get replication configuration",
                    "No destination buckets found in replication rules."}
             => StoppedAtDiscovery
       /\ ~StoppedAtDiscovery =>
             /\ repl.present
             /\ destBuckets # <<>>
             /\ destBuckets = CollectDestBuckets(repl.rules)

\* a run on a stored configuration whose rules name no destination has
\* stopped
NothingToVerifyWitness ==
    /\ AskedConfiguration
    /\ repl.present
    /\ Len(repl.rules) >= 1
    /\ Referenced = {}
    /\ StoppedAtDiscovery
    /\ verr = "No destination buckets found in replication rules."

----------------------------------------------------------------------------
(* Termination of the runs *)

SetupRunning == pc \notin {"idle", "done", "fatal"}

VerifyRunning == vpc \notin {"idle", "done", "fatal"}

\* every started setup run ends in completion or a fatal error
SetupEnds == SetupRunning ~> pc \in {"done", "fatal"}

\* every started verification run ends with its summary or a fatal error
VerifyEnds == VerifyRunning ~> vpc \in {"done", "fatal"}

\* presence checks the run has made on bucket d, at the least: 12 for every
\* polling pass that timed out, one for every pass that found the key, and
\* those of the pass that is running
ChecksAtLeast(d) ==
    MaxAttempts * Cardinality(TimedOutOn(d)) + Cardinality(FoundOn(d))
       + (IF Polling /\ Cur = d THEN attempt ELSE 0)

\* no polling pass goes beyond 12 checks and no destination gets more than
\* 12 checks in a run
BoundedChecks ==
    /\ attempt <= MaxAttempts
    /\ \A d \in Dests : ChecksAtLeast(d) <= MaxAttempts

\* C23: every verification run ends, with its summary or a fatal error,
\* having made at most 12 presence checks on each destination, and every
\* setup run ends in completion or a fatal error
Termination ==
    /\ VerifyEnds
    /\ SetupEnds
    /\ []BoundedChecks

----------------------------------------------------------------------------
(* Properties of a series of putReplicationConfiguration calls *)

\* the destinations of the calls that returned nil, each at its first call
RECURSIVE FirstUpserts(_)
FirstUpserts(n) ==
    IF n = 0 THEN <<>>
    ELSE LET before == FirstUpserts(n - 1)
             d      == upserts[n].dstBucket
         IN  IF \E i \in 1..Len(before) : before[i] = d
             THEN before ELSE Append(before, d)

\* no call of the series met a failing fetch
NoFetchFailure ==
    \A i \in 1..Len(upserts) : CleanFetch(upserts[i].fetchRes)

\* C24: from a source without configuration, after any series of successful
\* calls none of which met a fetch failure, the stored configuration holds
\* one rule for each distinct destination upserted, in the order of the first
\* upserts, the rule of the i-th distinct destination having priority i
ReachableFromEmpty ==
    (pc = "idle" /\ NoFetchFailure) =>
       LET ds == FirstUpserts(Len(upserts))
       IN  /\ repl.present <=> upserts # <<>>
           /\ Len(repl.rules) = Len(ds)
           /\ \A i \in 1..Len(ds) :
                 /\ repl.rules[i].Destination = <<"arn:aws:s3:::", ds[i]>>
                 /\ repl.rules[i].Priority = i

\* three calls returned, the third for the destination of the first, and
\* two rules are stored
ReachableFromEmptyWitness ==
    /\ pc = "idle"
    /\ NoFetchFailure
    /\ Len(upserts) = 3
    /\ upserts[1].dstBucket = upserts[3].dstBucket
    /\ upserts[1].dstBucket # upserts[2].dstBucket
    /\ Len(repl.rules) = 2
    /\ repl.rules[2].Priority = 2

\* C25: after a successful putReplicationConfiguration call the role
\* reference of the stored configuration is the role ARN passed to the call,
\* whatever it was before, and every rule the configuration held for another
\* destination is still there, unchanged and at its position
RoleReferenceOverwrite ==
    pc = "done" =>
       /\ repl.present
       /\ repl.role = roleArn
       /\ \A i \in 1..Len(replBefore.rules) :
             replBefore.rules[i].Destination # Target =>
                /\ i <= Len(repl.rules)
                /\ repl.rules[i] = replBefore.rules[i]

\* a call replaced the role reference another tool had stored and kept that
\* tool's rule for another destination
RoleReferenceReplaced ==
    /\ pc = "done"
    /\ replBefore.present
    /\ replBefore.role # roleArn
    /\ repl.role = roleArn
    /\ \E i \in 1..Len(replBefore.rules) :
          /\ replBefore.rules[i].Destination # Target
          /\ repl.rules[i] = replBefore.rules[i]

\* the roles the stored configuration refers to
ReferencedRoles == {r \in roles : r.arn = repl.role}

\* the role holds an inline policy that lets S3 replicate from the source to
\* the destination of the rule
Grants(r, rule) ==
    \E p \in r.policies :
       /\ p.doc.source = <<"arn:aws:s3:::", SrcBucket>>
       /\ p.doc.destination = rule.Destination

\* C26: after any series of successful setup runs on one source bucket the
\* role the stored configuration refers to holds, for every destination in
\* the rules of the configuration, an inline policy granting replication
\* from the source to that destination
RoleCoversEveryRule ==
    pc = "done" =>
       /\ ReferencedRoles # {}
       /\ \A r \in ReferencedRoles :
             \A i \in 1..Len(repl.rules) :
                repl.rules[i].Destination # NoDestination
                   => Grants(r, repl.rules[i])

====
